---- MODULE Spec2Model ----
(***************************************************************************)
(* Model of the bash-parser-ast front end: the Tokenizer (tokenizer.ts)    *)
(* and the recursive-descent BashParser (parser.ts).                       *)
(*                                                                         *)
(* A source text is a sequence of one-character strings.  The Tokenizer    *)
(* is modelled character by character; one action is one iteration of the  *)
(* loop of tokenize().  The parser is modelled as a stack machine: a frame *)
(* is one statement-collecting loop that is running (the loop of           *)
(* parseStatements, the then/else loops of parseConditional, the body      *)
(* loops of parseLoop and parseFunction), and one action is one iteration  *)
(* of the innermost running loop, or its exit.                             *)
(***************************************************************************)
EXTENDS Integers, Sequences, FiniteSets, TLC

VARIABLES
    pc,         \* "tokenize" | "parse" | "done": where the call of parse() is
    input,      \* Tokenizer.input
    tkz,        \* Tokenizer.position / line / column
    toks,       \* the local array `tokens` of Tokenizer.tokenize
    tokens,     \* BashParser.tokens
    position,   \* BashParser.position
    stack,      \* the running statement loops, innermost last
    branch,     \* the branch the last call of parseStatement took, and where
    outcome,    \* what parse() returned or threw
    served      \* the calls this BashParser has served, and what its first one gave

vars == <<pc, input, tkz, toks, tokens, position, stack, branch, outcome, served>>

(***************************************************************************)
(* Bounds of the model.                                                    *)
(***************************************************************************)
MaxLexemes == 3   \* lexemes in a free-form input
MaxBody    == 2   \* lexemes in the free-form body of a wrapped construct
MaxCmds    == 3   \* commands in a pipeline / script input
MaxCalls   == 2   \* further calls of parse() on a BashParser that has served one

(***************************************************************************)
(* Characters.                                                             *)
(***************************************************************************)
SP == " "
NL == "\n"
DQ == "\""
BS == "\\"

Letters ==
    { "a","b","c","d","e","f","g","h","i","j","k","l","m","n","o","p","q",
      "r","s","t","u","v","w","x","y","z",
      "A","B","C","D","E","F","G","H","I","J","K","L","M","N","O","P","Q",
      "R","S","T","U","V","W","X","Y","Z" }

Digits == { "0","1","2","3","4","5","6","7","8","9" }

\* tokenizer.ts isWordChar: /[a-zA-Z0-9_.\/-]/
isWordChar(char) == char \in Letters \cup Digits \cup { "_", ".", "/", "-" }

\* tokenizer.ts skipWhitespace: /[ \t]/
isBlank(char) == char \in { " ", "\t" }

(***************************************************************************)
(* Reserved words (tokenizer.ts getKeywordType).                           *)
(***************************************************************************)
kwIf       == <<"i","f">>
kwThen     == <<"t","h","e","n">>
kwElse     == <<"e","l","s","e">>
kwFi       == <<"f","i">>
kwFor      == <<"f","o","r">>
kwWhile    == <<"w","h","i","l","e">>
kwDo       == <<"d","o">>
kwDone     == <<"d","o","n","e">>
kwFunction == <<"f","u","n","c","t","i","o","n">>

keywords ==
    { <<kwIf, "IF">>, <<kwThen, "THEN">>, <<kwElse, "ELSE">>, <<kwFi, "FI">>,
      <<kwFor, "FOR">>, <<kwWhile, "WHILE">>, <<kwDo, "DO">>,
      <<kwDone, "DONE">>, <<kwFunction, "FUNCTION">> }

\* keywords is an object literal: a lookup that finds no own property goes on
\* to Object.prototype, whose properties have these names
objectPrototype ==
    { <<"c","o","n","s","t","r","u","c","t","o","r">>,
      <<"t","o","S","t","r","i","n","g">>,
      <<"t","o","L","o","c","a","l","e","S","t","r","i","n","g">>,
      <<"v","a","l","u","e","O","f">>,
      <<"h","a","s","O","w","n","P","r","o","p","e","r","t","y">>,
      <<"i","s","P","r","o","t","o","t","y","p","e","O","f">>,
      <<"p","r","o","p","e","r","t","y","I","s","E","n","u","m","e","r","a","b","l","e">>,
      <<"_","_","p","r","o","t","o","_","_">>,
      <<"_","_","d","e","f","i","n","e","G","e","t","t","e","r","_","_">>,
      <<"_","_","d","e","f","i","n","e","S","e","t","t","e","r","_","_">>,
      <<"_","_","l","o","o","k","u","p","G","e","t","t","e","r","_","_">>,
      <<"_","_","l","o","o","k","u","p","S","e","t","t","e","r","_","_">> }

\* keywords[value] || null ; "" stands for null, "Object.prototype" for the
\* function or object an inherited property holds, which is no TokenType
getKeywordType(value) ==
    IF \E k \in keywords : k[1] = value
    THEN (CHOOSE k \in keywords : k[1] = value)[2]
    ELSE IF value \in objectPrototype THEN "Object.prototype"
    ELSE ""

(***************************************************************************)
(* Positions and tokens.                                                   *)
(***************************************************************************)
undefinedPosition == [start |-> -1, end |-> -1, line |-> -1, column |-> -1]

undefinedToken == [type |-> "undefined", value |-> <<>>, position |-> undefinedPosition]

(***************************************************************************)
(* Tokenizer.  t is the record of the fields position, line, column.       *)
(***************************************************************************)
newTokenizer == [position |-> 0, line |-> 1, column |-> 1]

\* this.input[this.position] || ''
T_current(t) == IF t.position < Len(input) THEN input[t.position + 1] ELSE ""

T_advance(t) ==
    [position |-> t.position + 1,
     line     |-> IF T_current(t) = NL THEN t.line + 1 ELSE t.line,
     column   |-> IF T_current(t) = NL THEN 1 ELSE t.column + 1]

T_getPosition(t) ==
    [start |-> t.position, end |-> t.position, line |-> t.line, column |-> t.column]

\* the token keeps the end that getPosition() gave its start
createTokenAtStart(type, value, start, t) ==
    [type |-> type, value |-> value, position |-> start]

\* createToken(type, value, start) called when the tokenizer is in state t
createToken(type, value, start, t) ==
    [type |-> type, value |-> value,
     position |-> [start EXCEPT !.end = t.position]]

Scanned(token, t) == [token |-> token, t |-> t]

RECURSIVE skipWhitespace(_)
skipWhitespace(t) ==
    IF t.position < Len(input) /\ isBlank(T_current(t))
    THEN skipWhitespace(T_advance(t))
    ELSE t

RECURSIVE readCommentLoop(_, _)
readCommentLoop(value, t) ==
    IF t.position < Len(input) /\ T_current(t) # NL
    THEN readCommentLoop(Append(value, T_current(t)), T_advance(t))
    ELSE [value |-> value, t |-> t]

readComment(t) ==
    LET start == T_getPosition(t)
        r     == readCommentLoop(<<>>, T_advance(t))
    IN  Scanned(createToken("COMMENT", r.value, start, r.t), r.t)

RECURSIVE readQuotedLoop(_, _, _)
readQuotedLoop(quote, value, t) ==
    IF t.position < Len(input) /\ T_current(t) # quote
    THEN IF T_current(t) = BS
         THEN LET t1 == T_advance(t)
              IN  IF t1.position < Len(input)
                  THEN readQuotedLoop(quote, Append(value, T_current(t1)), T_advance(t1))
                  ELSE readQuotedLoop(quote, value, t1)
         ELSE readQuotedLoop(quote, Append(value, T_current(t)), T_advance(t))
    ELSE [value |-> value, t |-> t]

readQuotedString(quote, t) ==
    LET start == T_getPosition(t)
        r     == readQuotedLoop(quote, <<>>, T_advance(t))
        t2    == IF T_current(r.t) = quote THEN T_advance(r.t) ELSE r.t
    IN  Scanned(createToken("QUOTED_STRING", r.value, start, t2), t2)

RECURSIVE readBracedLoop(_, _)
readBracedLoop(value, t) ==
    IF t.position < Len(input) /\ T_current(t) # "}"
    THEN readBracedLoop(Append(value, T_current(t)), T_advance(t))
    ELSE [value |-> value, t |-> t]

RECURSIVE readWordLoop(_, _)
readWordLoop(value, t) ==
    IF t.position < Len(input) /\ isWordChar(T_current(t))
    THEN readWordLoop(Append(value, T_current(t)), T_advance(t))
    ELSE [value |-> value, t |-> t]

readVariable(t) ==
    LET start == T_getPosition(t)
        t1    == T_advance(t)
    IN  IF T_current(t1) = "{"
        THEN LET r  == readBracedLoop(<<>>, T_advance(t1))
                 t2 == IF T_current(r.t) = "}" THEN T_advance(r.t) ELSE r.t
             IN  Scanned(createToken("VARIABLE", r.value, start, t2), t2)
        ELSE LET r == readWordLoop(<<>>, t1)
             IN  Scanned(createToken("VARIABLE", r.value, start, r.t), r.t)

\* an unknown character is made a WORD token but not consumed
readWordKeepUnknown(t) ==
    LET start == T_getPosition(t)
    IN  IF ~isWordChar(T_current(t))
        THEN Scanned(createToken("WORD", <<T_current(t)>>, start, t), t)
        ELSE LET r  == readWordLoop(<<>>, t)
                 kw == getKeywordType(r.value)
                 tokenType == IF kw # "" THEN kw ELSE "WORD"
             IN  Scanned(createToken(tokenType, r.value, start, r.t), r.t)

readWord(t) ==
    LET start == T_getPosition(t)
    IN  IF ~isWordChar(T_current(t))
        THEN LET t1 == T_advance(t)
             IN  Scanned(createToken("WORD", <<T_current(t)>>, start, t1), t1)
        ELSE LET r  == readWordLoop(<<>>, t)
                 kw == getKeywordType(r.value)
                 tokenType == IF kw # "" THEN kw ELSE "WORD"
             IN  Scanned(createToken(tokenType, r.value, start, r.t), r.t)

\* the operator switch of nextToken; char is the current character
readOperator(char, startPos, t) ==
    LET t1 == T_advance(t)
        t2 == T_advance(t1)
    IN  CASE char = "|" ->
                IF T_current(t1) = "|"
                THEN Scanned(createToken("OR", <<"|","|">>, startPos, t2), t2)
                ELSE Scanned(createToken("PIPE", <<"|">>, startPos, t1), t1)
          [] char = "&" ->
                IF T_current(t1) = "&"
                THEN Scanned(createToken("AND", <<"&","&">>, startPos, t2), t2)
                ELSE Scanned(createToken("AMPERSAND", <<"&">>, startPos, t1), t1)
          [] char = ">" ->
                IF T_current(t1) = ">"
                THEN Scanned(createToken("REDIRECT_APPEND", <<">",">">>, startPos, t2), t2)
                ELSE Scanned(createToken("REDIRECT_OUT", <<">">>, startPos, t1), t1)
          [] char = "<" -> Scanned(createToken("REDIRECT_IN", <<"<">>, startPos, t1), t1)
          [] char = ";" -> Scanned(createToken("SEMICOLON", <<";">>, startPos, t1), t1)
          [] char = "(" -> Scanned(createToken("LPAREN", <<"(">>, startPos, t1), t1)
          [] char = ")" -> Scanned(createToken("RPAREN", <<")">>, startPos, t1), t1)
          [] char = "{" -> Scanned(createToken("LBRACE", <<"{">>, startPos, t1), t1)
          [] char = "}" -> Scanned(createToken("RBRACE", <<"}">>, startPos, t1), t1)

operatorChars == { "|", "&", ">", "<", ";", "(", ")", "{", "}" }

\* nextToken(): token is undefinedToken when the method returns null
nextToken(t) ==
    LET t0       == skipWhitespace(t)
        char     == T_current(t0)
        startPos == T_getPosition(t0)
    IN  IF t0.position >= Len(input) THEN Scanned(undefinedToken, t0)
        ELSE IF char = "#" THEN readComment(t0)
        ELSE IF char = NL
             THEN Scanned(createToken("NEWLINE", <<NL>>, startPos, T_advance(t0)), T_advance(t0))
        ELSE IF char \in operatorChars THEN readOperator(char, startPos, t0)
        ELSE IF char = DQ \/ char = "'" THEN readQuotedString(char, t0)
        ELSE IF char = "$" THEN readVariable(t0)
        ELSE readWord(t0)

(***************************************************************************)
(* BashParser: cursor helpers.  p is a value of this.position.             *)
(***************************************************************************)
Some(x) == <<x>>
None    == <<>>

\* this.tokens[this.position]
currentToken(p) == IF p >= 0 /\ p < Len(tokens) THEN tokens[p + 1] ELSE undefinedToken

check(type, p) == currentToken(p).type = type

isAtEnd(p) == p >= Len(tokens) \/ check("EOF", p)

\* advance(): the new position, and the token this.tokens[this.position - 1]
advance(p) ==
    LET np == IF ~isAtEnd(p) THEN p + 1 ELSE p
    IN  [p |-> np, token |-> currentToken(np - 1)]

\* What a parsing method gives back: a node and the new position, or a ParseError
Ok(p, node) ==
    [ok |-> TRUE, p |-> p, node |-> node, message |-> "", position |-> undefinedPosition]

\* the error carries the position of the token before the current one
ThrowAtPrevious(message, p) ==
    [ok |-> FALSE, p |-> p, node |-> undefinedToken, message |-> message,
     position |-> currentToken(p - 1).position]

\* new ParseError(message, this.currentToken()?.position)
Throw(message, p) ==
    [ok |-> FALSE, p |-> p, node |-> undefinedToken, message |-> message,
     position |-> currentToken(p).position]

consume(type, message, p) ==
    IF check(type, p) THEN Ok(advance(p).p, advance(p).token) ELSE Throw(message, p)

\* getNodePosition(start) called when this.position = p
getNodePosition(start, p) ==
    IF start = undefinedPosition THEN undefinedPosition
    ELSE LET current == currentToken(p)
             end == IF current # undefinedToken /\ current.position.end # 0
                    THEN current.position.end ELSE start.end
         IN  [start |-> start.start, end |-> end, line |-> start.line, column |-> start.column]

parseExpression(p) ==
    IF check("WORD", p) \/ check("QUOTED_STRING", p)
    THEN LET token == advance(p).token
         IN  Ok(advance(p).p,
                [type |-> "literal", value |-> token.value,
                 quoted |-> (token.type = "QUOTED_STRING"), position |-> token.position])
    ELSE IF check("VARIABLE", p)
    THEN LET token == advance(p).token
         IN  Ok(advance(p).p,
                [type |-> "variable", name |-> token.value, position |-> token.position])
    ELSE Throw("Expected expression", p)

\* the argument loop takes WORD tokens only
RECURSIVE parseArgsWordsOnly(_, _)
parseArgsWordsOnly(args, p) ==
    IF check("WORD", p)
    THEN parseArgsWordsOnly(Append(args, advance(p).token.value), advance(p).p)
    ELSE [args |-> args, p |-> p]

\* the argument loop of parseCommand
RECURSIVE parseArgs(_, _)
parseArgs(args, p) ==
    IF check("WORD", p) \/ check("QUOTED_STRING", p)
    THEN parseArgs(Append(args, advance(p).token.value), advance(p).p)
    ELSE [args |-> args, p |-> p]

parseCommand(p) ==
    LET start == currentToken(p).position
    IN  IF ~check("WORD", p) THEN Throw("Expected command name", p)
        ELSE LET name == advance(p).token.value
                 r    == parseArgs(<<>>, advance(p).p)
             IN  Ok(r.p, [type |-> "command", name |-> name, args |-> r.args,
                          position |-> getNodePosition(start, r.p)])

\* the while (check(PIPE)) loop of parsePipeline
RECURSIVE parsePipelineLoop(_, _)
parsePipelineLoop(commands, p) ==
    IF check("PIPE", p)
    THEN LET c == parseCommand(advance(p).p)
         IN  IF c.ok THEN parsePipelineLoop(Append(commands, c.node), c.p) ELSE c
    ELSE Ok(p, commands)

parsePipeline(p) ==
    LET first == parseCommand(p)
    IN  IF ~first.ok THEN first
        ELSE LET r == parsePipelineLoop(<<first.node>>, first.p)
             IN  IF ~r.ok THEN r
                 ELSE IF Len(r.node) = 1 THEN Ok(r.p, r.node[1])
                 ELSE Ok(r.p, [type |-> "pipeline", commands |-> r.node,
                               position |-> getNodePosition(undefinedPosition, r.p)])

isVariableAssignment(p) ==
    IF check("WORD", p) /\ p + 1 < Len(tokens)
    THEN tokens[p + 2].value = <<"=">>
    ELSE FALSE

parseVariableAssignment(p) ==
    LET start == currentToken(p).position
        name  == advance(p).token.value
        eq    == consume("WORD", "Expected '='", advance(p).p)
    IN  IF ~eq.ok THEN eq
        ELSE LET value == parseExpression(eq.p)
             IN  IF ~value.ok THEN value
                 ELSE Ok(value.p, [type |-> "assignment", name |-> name,
                                   value |-> value.node,
                                   position |-> getNodePosition(start, value.p)])

\* the dispatch of parseStatement: the branch it takes when this.position = p
statementBranch(p) ==
    IF check("COMMENT", p) THEN "comment"
    ELSE IF check("EOF", p) THEN "eof"
    ELSE IF check("IF", p) THEN "conditional"
    ELSE IF check("FOR", p) \/ check("WHILE", p) THEN "loop"
    ELSE IF check("FUNCTION", p) THEN "function"
    ELSE IF isVariableAssignment(p) THEN "assignment"
    ELSE IF check("WORD", p) THEN "pipeline"
    ELSE "null"

(***************************************************************************)
(* The running statement loops.                                            *)
(***************************************************************************)
Frame(kind, ctx) == [kind |-> kind, stmts |-> <<>>, ctx |-> ctx]

top == stack[Len(stack)]

\* the condition of the while loop that collects the statements of a frame
loopCondition(kind, p) ==
    CASE kind = "program"  -> ~isAtEnd(p) /\ ~check("EOF", p)
      [] kind = "then"     -> ~check("ELSE", p) /\ ~check("FI", p) /\ ~isAtEnd(p)
      [] kind = "else"     -> ~check("FI", p) /\ ~isAtEnd(p)
      [] kind = "loop"     -> ~check("DONE", p) /\ ~isAtEnd(p)
      [] kind = "function" -> ~check("RBRACE", p) /\ ~isAtEnd(p)

\* parseStatements only: the optional semicolon or newline after a statement
optionalSeparator(kind, p) ==
    IF kind = "program" /\ (check("SEMICOLON", p) \/ check("NEWLINE", p))
    THEN advance(p).p
    ELSE p

Iterating == pc = "parse" /\ stack # <<>> /\ loopCondition(top.kind, position)
Exiting   == pc = "parse" /\ stack # <<>> /\ ~loopCondition(top.kind, position)

NoOutcome == [status |-> "none", body |-> <<>>, message |-> "", position |-> undefinedPosition]

\* a ParseError leaves parse(): the catch block rethrows it
Fail(r) ==
    /\ pc' = "done"
    /\ position' = r.p
    /\ stack' = <<>>
    /\ outcome' = [status |-> "error", body |-> <<>>, message |-> r.message,
                   position |-> r.position]

\* statements.push(stmt) in the innermost loop, then the rest of its iteration
Push(stk, stmt, p) ==
    /\ stack' = [stk EXCEPT ![Len(stk)].stmts = Append(@, stmt)]
    /\ position' = optionalSeparator(stk[Len(stk)].kind, p)
    /\ UNCHANGED <<pc, outcome>>

Called(name) == branch' = [name |-> name, at |-> position]

(***************************************************************************)
(* Tokenizer.tokenize                                                      *)
(***************************************************************************)
\* one iteration of while (this.position < this.input.length)
NextToken ==
    /\ pc = "tokenize"
    /\ tkz.position < Len(input)
    /\ LET r == nextToken(tkz)
       IN  /\ tkz' = r.t
           /\ toks' = IF r.token # undefinedToken THEN Append(toks, r.token) ELSE toks
    /\ UNCHANGED <<pc, served, input, tokens, position, stack, branch, outcome>>

\* the cursor stays where the earlier call left it
keepPosition(p) == p

\* this.position = 0
startPosition(p) == 0

\* tokens.push(EOF); return tokens -- and parse() stores them and resets its cursor
FinishTokenize ==
    /\ pc = "tokenize"
    /\ ~(tkz.position < Len(input))
    /\ LET all == Append(toks, createToken("EOF", <<>>, T_getPosition(tkz), tkz))
       IN  /\ toks' = all
           /\ tokens' = all
    /\ position' = startPosition(position)
    /\ stack' = <<Frame("program", [start |-> undefinedPosition])>>
    /\ pc' = "parse"
    /\ UNCHANGED <<served, input, tkz, branch, outcome>>

(***************************************************************************)
(* One iteration of the innermost statement loop.                          *)
(***************************************************************************)
\* a loop that got no statement leaves the cursor where it is
skipUnparsed(p) == p

\* "If no statement could be parsed, advance to prevent infinite loop"
skip(p) == advance(p).p

SkipNewline ==
    /\ Iterating
    /\ check("NEWLINE", position)
    /\ position' = advance(position).p
    /\ UNCHANGED <<pc, served, input, tkz, toks, tokens, stack, branch, outcome>>

Dispatch(name) ==
    /\ Iterating
    /\ ~check("NEWLINE", position)
    /\ statementBranch(position) = name
    /\ Called(name)

\* parseStatement consumes the comment and returns null; the loop advances again
SkipComment ==
    /\ Dispatch("comment")
    /\ position' = optionalSeparator(top.kind, skip(advance(position).p))
    /\ UNCHANGED <<pc, served, input, tkz, toks, tokens, stack, outcome>>

\* parseStatement returns null; the loop of a nested body throws
SkipTokenStrict ==
    /\ Iterating
    /\ ~check("NEWLINE", position)
    /\ statementBranch(position) \in {"null", "eof"}
    /\ Called(statementBranch(position))
    /\ IF top.kind = "program"
       THEN /\ position' = optionalSeparator(top.kind, skip(position))
            /\ UNCHANGED <<pc, stack, outcome>>
       ELSE Fail(Throw("Unexpected token", position))
    /\ UNCHANGED <<served, input, tkz, toks, tokens>>

\* parseStatement returns null; the loop advances
SkipToken ==
    /\ Iterating
    /\ ~check("NEWLINE", position)
    /\ statementBranch(position) \in {"null", "eof"}
    /\ Called(statementBranch(position))
    /\ position' = optionalSeparator(top.kind, skip(position))
    /\ UNCHANGED <<pc, served, input, tkz, toks, tokens, stack, outcome>>

ParseAssignment ==
    /\ Dispatch("assignment")
    /\ LET r == parseVariableAssignment(position)
       IN  IF r.ok THEN Push(stack, r.node, r.p) ELSE Fail(r)
    /\ UNCHANGED <<served, input, tkz, toks, tokens>>

ParsePipeline ==
    /\ Dispatch("pipeline")
    /\ LET r == parsePipeline(position)
       IN  IF r.ok THEN Push(stack, r.node, r.p) ELSE Fail(r)
    /\ UNCHANGED <<served, input, tkz, toks, tokens>>

\* parseConditional up to its first body loop
BeginConditional ==
    /\ Dispatch("conditional")
    /\ LET start     == currentToken(position).position
           kw        == consume("IF", "Expected 'if'", position)
           condition == IF kw.ok THEN parseExpression(kw.p) ELSE kw
           thenKw    == IF condition.ok
                        THEN consume("THEN", "Expected 'then'", condition.p)
                        ELSE condition
       IN  IF thenKw.ok
           THEN /\ stack' = Append(stack, Frame("then",
                                [start |-> start, condition |-> condition.node]))
                /\ position' = thenKw.p
                /\ UNCHANGED <<pc, outcome>>
           ELSE Fail(thenKw)
    /\ UNCHANGED <<served, input, tkz, toks, tokens>>

\* the head of parseLoop for kind = 'for': variable, 'in', iterable
forHead(p) ==
    LET variable == consume("WORD", "Expected variable name", p)
        inWord   == IF variable.ok
                    THEN consume("WORD", "Expected 'in'", variable.p) ELSE variable
        iterable == IF inWord.ok THEN parseExpression(inWord.p) ELSE inWord
    IN  IF iterable.ok
        THEN Ok(iterable.p, [variable |-> Some(variable.node.value),
                             iterable |-> Some(iterable.node), condition |-> None])
        ELSE iterable

\* the head of parseLoop otherwise: condition
whileHead(p) ==
    LET condition == parseExpression(p)
    IN  IF condition.ok
        THEN Ok(condition.p, [variable |-> None, iterable |-> None,
                              condition |-> Some(condition.node)])
        ELSE condition

\* parseLoop up to its body loop
BeginLoop ==
    /\ Dispatch("loop")
    /\ LET start == currentToken(position).position
           kind  == advance(position).token.value
           head  == IF kind = kwFor THEN forHead(advance(position).p)
                    ELSE whileHead(advance(position).p)
           doKw  == IF head.ok THEN consume("DO", "Expected 'do'", head.p) ELSE head
       IN  IF doKw.ok
           THEN /\ stack' = Append(stack, Frame("loop",
                                [start |-> start, kind |-> kind, head |-> head.node]))
                /\ position' = doKw.p
                /\ UNCHANGED <<pc, outcome>>
           ELSE Fail(doKw)
    /\ UNCHANGED <<served, input, tkz, toks, tokens>>

\* parseFunction up to its body loop
BeginFunction ==
    /\ Dispatch("function")
    /\ LET start  == currentToken(position).position
           kw     == consume("FUNCTION", "Expected 'function'", position)
           name   == IF kw.ok THEN consume("WORD", "Expected function name", kw.p) ELSE kw
           lparen == IF name.ok THEN consume("LPAREN", "Expected '('", name.p) ELSE name
           rparen == IF lparen.ok THEN consume("RPAREN", "Expected ')'", lparen.p) ELSE lparen
           lbrace == IF rparen.ok THEN consume("LBRACE", "Expected '{'", rparen.p) ELSE rparen
       IN  IF lbrace.ok
           THEN /\ stack' = Append(stack, Frame("function",
                                [start |-> start, name |-> name.node.value]))
                /\ position' = lbrace.p
                /\ UNCHANGED <<pc, outcome>>
           ELSE Fail(lbrace)
    /\ UNCHANGED <<served, input, tkz, toks, tokens>>

(***************************************************************************)
(* The exit of the innermost statement loop.                               *)
(***************************************************************************)
\* parseStatements returns; parse() returns the Program
EndProgram ==
    /\ Exiting
    /\ top.kind = "program"
    /\ pc' = "done"
    /\ stack' = <<>>
    /\ outcome' = [status |-> "program", body |-> top.stmts, message |-> "",
                   position |-> getNodePosition(undefinedPosition, position)]
    /\ UNCHANGED <<served, input, tkz, toks, tokens, position, branch>>

\* if (this.check(TokenType.ELSE)): the else loop starts
BeginElse ==
    /\ Exiting
    /\ top.kind = "then"
    /\ check("ELSE", position)
    /\ position' = advance(position).p
    /\ stack' = [stack EXCEPT ![Len(stack)] =
                    Frame("else", [start |-> top.ctx.start,
                                   condition |-> top.ctx.condition,
                                   then |-> top.stmts])]
    /\ UNCHANGED <<pc, served, input, tkz, toks, tokens, branch, outcome>>

\* the construct whose body loop has ended consumes its closing token and
\* returns node, which it builds with the cursor after that token, or throws
Return(closing, message, node) ==
    LET r == consume(closing, message, position)
    IN  IF r.ok
        THEN Push(SubSeq(stack, 1, Len(stack) - 1), node, r.p)
        ELSE Fail(r)

conditionalNode(p) ==
    [type |-> "conditional",
     condition |-> top.ctx.condition,
     then |-> IF top.kind = "then" THEN top.stmts ELSE top.ctx.then,
     else |-> IF top.kind = "then" THEN None ELSE Some(top.stmts),
     position |-> getNodePosition(top.ctx.start, p)]

EndConditional ==
    /\ Exiting
    /\ top.kind \in {"then", "else"}
    /\ ~(top.kind = "then" /\ check("ELSE", position))
    /\ Return("FI", "Expected 'fi'", conditionalNode(advance(position).p))
    /\ UNCHANGED <<served, input, tkz, toks, tokens, branch>>

loopNode(p) ==
    [type |-> "loop", kind |-> top.ctx.kind,
     condition |-> top.ctx.head.condition,
     variable |-> top.ctx.head.variable,
     iterable |-> top.ctx.head.iterable,
     body |-> top.stmts,
     position |-> getNodePosition(top.ctx.start, p)]

EndLoop ==
    /\ Exiting
    /\ top.kind = "loop"
    /\ Return("DONE", "Expected 'done'", loopNode(advance(position).p))
    /\ UNCHANGED <<served, input, tkz, toks, tokens, branch>>

functionNode(p) ==
    [type |-> "function", name |-> top.ctx.name, body |-> top.stmts,
     position |-> getNodePosition(top.ctx.start, p)]

EndFunction ==
    /\ Exiting
    /\ top.kind = "function"
    /\ Return("RBRACE", "Expected '}'", functionNode(advance(position).p))
    /\ UNCHANGED <<served, input, tkz, toks, tokens, branch>>

(***************************************************************************)
(* The source texts parse() is called with.                                *)
(***************************************************************************)
RECURSIVE Flatten(_)
Flatten(ss) == IF ss = <<>> THEN <<>> ELSE Head(ss) \o Flatten(Tail(ss))

RECURSIVE Join(_, _)
Join(ss, sep) ==
    IF Len(ss) <= 1 THEN Flatten(ss) ELSE Head(ss) \o sep \o Join(Tail(ss), sep)

SeqsUpTo(S, n) == UNION { [1..k -> S] : k \in 0..n }

wA    == <<"a">>
wB    == <<"b">>
wEcho == <<"e","c","h","o">>
wTest == <<"t","e","s","t">>
wIn   == <<"i","n">>
wValueOf == <<"v","a","l","u","e","O","f">>
qAB   == <<DQ, "a", SP, "b", DQ>>          \* "a b"
qEq   == <<DQ, "=", DQ>>                   \* "="
qEsc  == <<"'", "a", BS, "'", "b", "'">>   \* 'a\'b'

Lexemes ==
    { wA, wB, kwIf, kwFi, <<SP>>, <<NL>>, <<";">>, <<"|">>, <<"=">>,
      <<"$">>, <<"#">>, <<">">>, <<DQ>>, qAB, qEq, qEsc, wValueOf }

\* free-form texts
FreeInputs == { Flatten(ls) : ls \in SeqsUpTo(Lexemes, MaxLexemes) }

\* a construct around a free-form body
Wrappers ==
    { << kwIf \o <<SP>> \o wA \o <<SP>> \o kwThen \o <<SP>>,  <<SP>> \o kwFi >>,
      << kwIf \o <<SP>> \o wA \o <<SP>> \o kwThen \o <<SP>>,
         <<SP>> \o kwElse \o <<SP>> \o wB \o <<NL>> \o kwFi >>,
      << kwIf \o <<SP>> \o wA \o <<SP>> \o kwThen \o <<SP>> \o wB \o <<SP>> \o kwElse \o <<SP>>,
         <<SP>> \o kwFi >>,
      << kwWhile \o <<SP, "$">> \o wA \o <<SP>> \o kwDo \o <<SP>>,  <<SP>> \o kwDone >>,
      << kwFor \o <<SP>> \o wA \o <<SP>> \o wIn \o <<SP>> \o wB \o <<SP>> \o kwDo \o <<SP>>,
         <<SP>> \o kwDone >>,
      << kwFunction \o <<SP>> \o wA \o <<"(", ")", "{", SP>>,  <<SP, "}">> >> }

WrappedInputs ==
    { w[1] \o Flatten(ls) \o w[2] : w \in Wrappers, ls \in SeqsUpTo(Lexemes, MaxBody) }

\* if <condition> NL then NL <command> NL fi
IfInputs ==
    { kwIf \o <<SP>> \o c \o <<NL>> \o kwThen \o <<NL>> \o s \o <<NL>> \o kwFi :
        c \in { wTest \o <<SP, "-", "f", SP, "f">>, wA \o <<SP>> \o wB },
        s \in { wEcho \o <<SP, "x">>, wA } }

\* for V in L NL do NL echo $V NL done
ForText(v, l) ==
    kwFor \o <<SP>> \o v \o <<SP>> \o wIn \o <<SP>> \o l \o <<NL>> \o kwDo \o <<NL>>
        \o wEcho \o <<SP, "$">> \o v \o <<NL>> \o kwDone

ForVariables == { wA, <<"i","t","e","m">> }
ForLists     == { wB, <<"l","i","s","t">> }

ForInputs == { ForText(v, l) : v \in ForVariables, l \in ForLists }

\* simple commands: a name followed by plain word arguments
SimpleCommands ==
    { wA, wB, wA \o <<SP>> \o wB, wB \o <<SP, "-">> \o wA \o <<SP>> \o wA, wValueOf }

\* A | B | C
PipeInputs == { Join(cs, <<SP, "|", SP>>) : cs \in SeqsUpTo(SimpleCommands, MaxCmds) }

\* what stands between two commands of a script, before the first, after the last
Separators == { <<";">>, <<NL>>, <<NL, NL>>, <<SP, "#", "c", NL>>, <<NL, "#", "c", NL>>,
                <<";", SP, "#">> \o wA \o <<NL>> }
Leaders    == { <<>>, <<NL>>, <<"#", "!", NL, NL>> }
Trailers   == { <<>>, <<NL>>, <<";">>, <<SP, "#", SP, "c">>, <<SP, "#", "=">> }

RECURSIVE Script(_, _)
Script(cs, seps) ==
    IF Len(cs) <= 1 THEN Flatten(cs)
    ELSE Head(cs) \o Head(seps) \o Script(Tail(cs), Tail(seps))

ScriptInputs ==
    { l \o Script(cs, seps) \o t :
        l \in Leaders, t \in Trailers,
        cs \in { wA, wB \o <<SP>> \o wA } \X { wA, wB } \X { wB },
        seps \in Separators \X Separators }

\* the source texts of the test suite (parser.test.ts, tokenizer.test.ts)
tLs == <<"l", "s">>
tLsLa == <<"l", "s", SP, "-", "l", "a">>
tLsLaHome == <<"l", "s", SP, "-", "l", "a", SP, "/", "h", "o", "m", "e">>
tEchoQuoted == <<"e", "c", "h", "o", SP, DQ, "h", "e", "l", "l", "o", SP, "w", "o", "r", "l", "d", DQ>>
tPipe2 == <<"l", "s", SP, "|", SP, "g", "r", "e", "p", SP, "t", "e", "s", "t">>
tPipe4 == <<"c", "a", "t", SP, "f", ".", "t", "x", "t", SP, "|", SP, "g", "r", "e", "p", SP, "p", SP, "|", SP, "s", "o", "r", "t", SP, "|", SP, "u", "n", "i", "q">>
tAssign == <<"n", "a", "m", "e", "=", "j", "o", "h", "n">>
tEchoVar == <<"e", "c", "h", "o", SP, "$", "n", "a", "m", "e">>
tIfWithoutFi == <<"i", "f", SP, "w", "i", "t", "h", "o", "u", "t", SP, "f", "i">>
tInvalid == <<"i", "n", "v", "a", "l", "i", "d", SP, "(", SP, "s", "y", "n", "t", "a", "x">>
tTwo == <<"e", "c", "h", "o", SP, "h", "e", "l", "l", "o", ";", SP, "l", "s", SP, "-", "l", "a">>
tThree == <<NL, "e", "c", "h", "o", SP, "h", "e", "l", "l", "o", NL, "l", "s", SP, "-", "l", "a", NL, "p", "w", "d", NL>>
tWord == <<".", "/", "a", "-", "1", "_", "B">>
tKeywords == <<"i", "f", SP, "t", "h", "e", "n", SP, "e", "l", "s", "e", SP, "f", "i">>
tLines == <<"l", "s", NL, "e", "c", "h", "o", SP, "h", "e", "l", "l", "o">>

TestInputs ==
    { tLs, tLsLa, tLsLaHome, tEchoQuoted, tPipe2,
      tPipe4, tAssign, tEchoVar, tIfWithoutFi, tInvalid,
      tTwo, tThree, tWord, tKeywords, tLines }

\* a command, a variable reference or a redirection operator, more words
tEchoVarWord == <<"e", "c", "h", "o", SP, "$", "x", SP, "y">>
tEchoRedirect == <<"e", "c", "h", "o", SP, "a", SP, ">", SP, "o", "u", "t">>

RedirectInputs ==
    { c \o <<SP>> \o d \o <<SP>> \o w :
        c \in { wEcho, wEcho \o <<SP>> \o wA, wEcho \o <<SP>> \o qAB },
        d \in { <<"$", "x">>, <<"$", "{", "x", "}">>, <<"$", "{", "=", "}">>,
                <<">">>, <<">", ">">>, <<"<">> },
        w \in { wB, wB \o <<SP>> \o wA } }
        \cup { tEchoVarWord, tEchoRedirect }

Inputs == FreeInputs \cup WrappedInputs \cup IfInputs \cup ForInputs
            \cup PipeInputs \cup ScriptInputs \cup TestInputs \cup RedirectInputs

(***************************************************************************)
(* The specification: one call of parse(input) on a new BashParser.        *)
(***************************************************************************)
\* no call has returned or thrown yet
NotCalled ==
    [calls |-> 0, threw |-> FALSE, input |-> <<>>, tokens |-> <<>>, outcome |-> NoOutcome]

Init ==
    /\ input \in Inputs
    /\ pc = "tokenize"
    /\ tkz = newTokenizer
    /\ toks = <<>>
    /\ tokens = <<>>
    /\ position = 0
    /\ stack = <<>>
    /\ branch = [name |-> "", at |-> 0]
    /\ outcome = NoOutcome
    /\ served = NotCalled

Next ==
    \/ NextToken
    \/ FinishTokenize
    \/ SkipNewline
    \/ SkipComment
    \/ SkipToken
    \/ ParseAssignment
    \/ ParsePipeline
    \/ BeginConditional
    \/ BeginLoop
    \/ BeginFunction
    \/ BeginElse
    \/ EndConditional
    \/ EndLoop
    \/ EndFunction
    \/ EndProgram

Spec == Init /\ [][Next]_vars

(***************************************************************************)
(* The specification of a BashParser that serves several calls of parse.   *)
(***************************************************************************)
\* the source texts of the calls: one for every path through parse()
AgainInputs ==
    { w[1] \o wA \o w[2] : w \in Wrappers }
        \cup { <<>>, tLs, tPipe2, tAssign, tThree, tInvalid, tIfWithoutFi,
               <<"#", "c", NL>> \o wA, kwFunction \o <<SP>> \o wA \o <<"(", ")", "{", SP>> \o wA }

\* parse(s) is called on the BashParser whose call has ended: its fields tokens
\* and position are as that call left them, the Tokenizer is a new one
ParseAgain ==
    /\ pc = "done"
    /\ served.calls < MaxCalls
    /\ \E s \in AgainInputs : input' = s
    /\ pc' = "tokenize"
    /\ tkz' = newTokenizer
    /\ toks' = <<>>
    /\ stack' = <<>>
    /\ branch' = [name |-> "", at |-> 0]
    /\ outcome' = NoOutcome
    /\ served' = IF served.calls = 0
                 THEN [calls |-> 1, threw |-> (outcome.status = "error"),
                       input |-> input, tokens |-> tokens, outcome |-> outcome]
                 ELSE [served EXCEPT !.calls = @ + 1,
                                     !.threw = @ \/ outcome.status = "error"]
    /\ UNCHANGED <<tokens, position>>

InitAgain ==
    /\ input \in AgainInputs
    /\ pc = "tokenize"
    /\ tkz = newTokenizer
    /\ toks = <<>>
    /\ tokens = <<>>
    /\ position = 0
    /\ stack = <<>>
    /\ branch = [name |-> "", at |-> 0]
    /\ outcome = NoOutcome
    /\ served = NotCalled

NextAgain ==
    \/ Next
    \/ ParseAgain

SpecAgain == InitAgain /\ [][NextAgain]_vars

(***************************************************************************)
(* What the claims speak of.                                               *)
(***************************************************************************)
Done     == pc = "done"
Returned == pc = "done" /\ outcome.status = "program"
Threw    == pc = "done" /\ outcome.status = "error"

ReservedWords == { k[1] : k \in keywords }

\* a non-empty run of word characters
BareWord(text) == text # <<>> /\ \A i \in 1..Len(text) : isWordChar(text[i])

\* the source text of a token, and the text between its first and last character
rawText(token) == SubSeq(input, token.position.start + 1, token.position.end)
textBetween(token) == SubSeq(input, token.position.start + 2, token.position.end - 1)

\* a token whose source text is a run of word characters that is no reserved
\* word: a plain word of the script, whatever kind the token was given
PlainWord(token) ==
    /\ token.position.start < token.position.end
    /\ BareWord(rawText(token))
    /\ rawText(token) \notin ReservedWords

\* the indexes of the tokens before EOF
Lexed == 1..(Len(tokens) - 1)

\* the index of the last token of the maximal run of plain words after token i
RECURSIVE wordsEnd(_)
wordsEnd(i) == IF i + 1 <= Len(tokens) /\ PlainWord(tokens[i + 1]) THEN wordsEnd(i + 1) ELSE i

\* the plain words after token i
wordsAfter(i) == [k \in 1..(wordsEnd(i) - i) |-> rawText(tokens[i + k])]

\* the indexes, in order, of the plain words that start a simple command
RECURSIVE startsFrom(_)
startsFrom(i) ==
    IF i > Len(tokens) THEN <<>>
    ELSE IF PlainWord(tokens[i]) /\ (i = 1 \/ ~PlainWord(tokens[i - 1]))
    THEN <<i>> \o startsFrom(i + 1)
    ELSE startsFrom(i + 1)

\* the Command that the simple command starting at token i is
IsCommandAt(c, i) ==
    c.type = "command" /\ c.name = rawText(tokens[i]) /\ c.args = wordsAfter(i)

\* every statement of a tree, nested ones and the commands of pipelines included
RECURSIVE statementsOf(_)
statementsOf(ss) ==
    IF ss = <<>> THEN <<>>
    ELSE LET s == Head(ss)
             inner ==
                CASE s.type = "pipeline"    -> s.commands
                  [] s.type = "conditional" ->
                        statementsOf(s.then) \o
                        (IF s.else = None THEN <<>> ELSE statementsOf(s.else[1]))
                  [] s.type = "loop"        -> statementsOf(s.body)
                  [] s.type = "function"    -> statementsOf(s.body)
                  [] OTHER                  -> <<>>
         IN  <<s>> \o inner \o statementsOf(Tail(ss))

\* the statements parse() has built so far: finished ones and those of running loops
RECURSIVE builtIn(_)
builtIn(frames) ==
    IF frames = <<>> THEN <<>>
    ELSE statementsOf(Head(frames).stmts) \o
         (IF Head(frames).kind = "else" THEN statementsOf(Head(frames).ctx.then) ELSE <<>>) \o
         builtIn(Tail(frames))

Built == builtIn(stack) \o statementsOf(outcome.body)

\* C1: an if statement whose condition is a command with arguments and whose
\* then, body and fi stand on lines of their own parses to one Conditional
\* with one then-statement and no else.
C1_IfStatementParses ==
    (Done /\ input \in IfInputs) =>
        /\ outcome.status = "program"
        /\ Len(outcome.body) = 1
        /\ outcome.body[1].type = "conditional"
        /\ Len(outcome.body[1].then) = 1
        /\ outcome.body[1].else = None

\* C2: a for loop over the lines `for V in L`, `do`, `echo $V`, `done` parses
\* to one Loop of kind "for" with variable V and a body of one Command.
C2_ForLoopParses ==
    \A v \in ForVariables, l \in ForLists :
        (Done /\ input = ForText(v, l)) =>
            /\ outcome.status = "program"
            /\ Len(outcome.body) = 1
            /\ outcome.body[1].type = "loop"
            /\ outcome.body[1].kind = kwFor
            /\ outcome.body[1].variable = Some(v)
            /\ Len(outcome.body[1].body) = 1
            /\ outcome.body[1].body[1].type = "command"

\* the Program a single command word w parses to
OneCommand(w) ==
    /\ outcome.status = "program"
    /\ Len(outcome.body) = 1
    /\ outcome.body[1].type = "command"
    /\ outcome.body[1].name = w
    /\ outcome.body[1].args = <<>>

\* C3: every input that is one run of word characters parses to one Command
\* named by that word, without arguments.
C3_AnyBareWord == (Done /\ BareWord(input)) => OneCommand(input)

\* C3 for the words that are not reserved: every input that is one run of word
\* characters and no reserved word parses to one Command named by that word.
C3_BareWordCommand ==
    (Done /\ BareWord(input) /\ input \notin ReservedWords) => OneCommand(input)

\* the tokens are n >= 1 simple commands joined by single pipes
PipeShaped ==
    /\ Len(tokens) >= 2
    /\ \A i \in Lexed : PlainWord(tokens[i]) \/ tokens[i].type = "PIPE"
    /\ PlainWord(tokens[1])
    /\ \A i \in Lexed : tokens[i].type = "PIPE" => PlainWord(tokens[i + 1])

\* no Pipeline node that parse builds has fewer than 2 commands
PipelinesHaveTwo ==
    \A k \in 1..Len(Built) :
        Built[k].type = "pipeline" => Len(Built[k].commands) >= 2

\* C4: n simple commands joined by `|` parse to a Pipeline of these n Commands
\* in source order when n >= 2 and to the bare Command when n = 1; no Pipeline
\* node that parse builds has fewer than 2 commands.
C4_Pipelines ==
    /\ PipelinesHaveTwo
    /\ (Done /\ PipeShaped) =>
            LET starts == startsFrom(1)
                n      == Len(starts)
            IN  /\ outcome.status = "program"
                /\ Len(outcome.body) = 1
                /\ IF n = 1 THEN IsCommandAt(outcome.body[1], 1)
                   ELSE /\ outcome.body[1].type = "pipeline"
                        /\ Len(outcome.body[1].commands) = n
                        /\ \A k \in 1..n :
                                IsCommandAt(outcome.body[1].commands[k], starts[k])

\* the token after token i is a WORD token whose text is "="
EqualsWordFollows(i) ==
    i + 1 <= Len(tokens) /\ tokens[i + 1].type = "WORD" /\ tokens[i + 1].value = <<"=">>

\* C5: where parseStatement finds a WORD, it parses a VariableAssignment exactly
\* when the next token is a WORD token with the text "=", and a command or
\* pipeline otherwise; `name=john` gives the assignment of the unquoted
\* literal john to name.
C5_AssignmentDispatch ==
    /\ (branch.name # "" /\ tokens[branch.at + 1].type = "WORD") =>
            IF EqualsWordFollows(branch.at + 1)
            THEN branch.name = "assignment"
            ELSE branch.name = "pipeline"
    /\ (Done /\ input = tAssign) =>
            /\ outcome.status = "program"
            /\ Len(outcome.body) = 1
            /\ outcome.body[1].type = "assignment"
            /\ outcome.body[1].name = <<"n","a","m","e">>
            /\ outcome.body[1].value.type = "literal"
            /\ outcome.body[1].value.value = <<"j","o","h","n">>
            /\ outcome.body[1].value.quoted = FALSE

\* the tokens are simple commands, each a run of plain words, separated by
\* newlines or by one semicolon right after a command, with comments between
ScriptShaped ==
    \A i \in Lexed :
        \/ PlainWord(tokens[i])
        \/ tokens[i].type \in {"NEWLINE", "COMMENT"}
        \/ tokens[i].type = "SEMICOLON" /\ i > 1 /\ PlainWord(tokens[i - 1])

\* C6: a script of k simple commands separated by one `;` or by newlines, with
\* blank lines and comments between them, parses to a Program of k statements.
C6_StatementCount ==
    (Done /\ ScriptShaped) =>
        /\ outcome.status = "program"
        /\ Len(outcome.body) = Len(startsFrom(1))

\* the same for the scripts in which no comment has the text "=" and every
\* plain word was given the kind WORD
C6_StatementCountOfWords ==
    (/\ Done
     /\ ScriptShaped
     /\ \A i \in Lexed : tokens[i].value # <<"=">>
     /\ \A j \in Lexed : PlainWord(tokens[j]) => tokens[j].type = "WORD") =>
        /\ outcome.status = "program"
        /\ Len(outcome.body) = Len(startsFrom(1))
        /\ \A k \in 1..Len(outcome.body) :
                IsCommandAt(outcome.body[k], startsFrom(1)[k])

\* the same as C4 for the pipelines in which every plain word was given the kind WORD
C4_PipelinesOfWords ==
    (\A i \in Lexed : PlainWord(tokens[i]) => tokens[i].type = "WORD") => C4_Pipelines

IsArgument(token) == token.type \in {"WORD", "QUOTED_STRING"}

\* the index of the last token of the maximal run of arguments after token i
RECURSIVE runEnd(_)
runEnd(i) == IF i + 1 <= Len(tokens) /\ IsArgument(tokens[i + 1]) THEN runEnd(i + 1) ELSE i

\* the values of the maximal run of arguments after token i
argumentsAfter(i) == [k \in 1..(runEnd(i) - i) |-> tokens[i + k].value]

\* the index of the token that starts where the node starts
tokenAt(node) == CHOOSE i \in 1..Len(tokens) : tokens[i].position.start = node.position.start

\* a quoted string that ends with the quote it began with
Closed(token) ==
    Len(rawText(token)) >= 2 /\ rawText(token)[Len(rawText(token))] = rawText(token)[1]

HasBackslash(text) == \E i \in 1..Len(text) : text[i] = BS

\* the arguments of command c are the values of the maximal run of WORD and
\* QUOTED_STRING tokens after its name
ArgsAreTheRun(c) == c.args = argumentsAfter(tokenAt(c))

\* C7 as stated: the arguments of a Command are the values of the maximal run
\* of WORD and QUOTED_STRING tokens after its name, and a quoted argument is
\* the text between its quotes.
C7_QuotedTextVerbatim ==
    \A k \in 1..Len(Built) :
        Built[k].type = "command" =>
            /\ ArgsAreTheRun(Built[k])
            /\ \A j \in 1..Len(Built[k].args) :
                    LET token == tokens[tokenAt(Built[k]) + j]
                    IN  (token.type = "QUOTED_STRING" /\ Closed(token)) =>
                            Built[k].args[j] = textBetween(token)

\* C7, amended: the arguments of a Command are the values of the maximal run
\* of WORD and QUOTED_STRING tokens after its name, and a quoted argument
\* without a backslash is the text between its quotes.
C7_CommandArguments ==
    \A k \in 1..Len(Built) :
        Built[k].type = "command" =>
            /\ ArgsAreTheRun(Built[k])
            /\ \A j \in 1..Len(Built[k].args) :
                    LET token == tokens[tokenAt(Built[k]) + j]
                    IN  (token.type = "QUOTED_STRING" /\ Closed(token)
                            /\ ~HasBackslash(rawText(token))) =>
                            Built[k].args[j] = textBetween(token)

C7_Witness ==
    /\ Returned
    /\ input = tEchoQuoted
    /\ outcome.body[1].type = "command"
    /\ outcome.body[1].args = << <<"h","e","l","l","o",SP,"w","o","r","l","d">> >>

\* C8: every failure of parse is a ParseError that carries the position of the
\* token that was current when the expectation failed; an `if` whose condition
\* is not followed by `then` fails.
C8_ErrorPosition ==
    /\ Done => outcome.status \in {"program", "error"}
    /\ Threw =>
            /\ outcome.position # undefinedPosition
            /\ outcome.position = currentToken(position).position
    /\ (Done /\ Len(tokens) >= 3 /\ tokens[1].type = "IF"
             /\ tokens[3].type # "THEN") => outcome.status = "error"

C8_Witness ==
    /\ Threw
    /\ input = tIfWithoutFi
    /\ outcome.message = "Expected 'then'"
    /\ outcome.position = tokens[3].position

\* C9: every iteration and every exit of a statement loop of the parser either
\* ends parse or moves the token cursor forward, and the cursor stays on a
\* token, so parse ends on every input.
C9_ParserProgress ==
    [][pc = "parse" =>
            /\ pc' = "done" \/ position' > position
            /\ position' < Len(tokens')]_vars

C9_Witness ==
    /\ Returned
    /\ \E k \in 1..Len(outcome.body) :
            /\ outcome.body[k].type = "conditional"
            /\ outcome.body[k].else # None
            /\ outcome.body[k].then # <<>>
    /\ position = Len(tokens) - 1

\* the number of EOF tokens in a token sequence
eofCount(ts) == Cardinality({ i \in 1..Len(ts) : ts[i].type = "EOF" })

\* C10: every call of nextToken in tokenize consumes at least one character
\* and leaves the cursor within the input; the sequence tokenize returns holds
\* one EOF token, its last; `ls -la` gives WORD, WORD, EOF.
C10_TokenizerProgress ==
    [][/\ (pc = "tokenize" /\ pc' = "tokenize") => tkz'.position > tkz.position
       /\ tkz'.position <= Len(input)
       /\ (pc = "tokenize" /\ pc' # "tokenize") =>
            /\ tkz.position = Len(input)
            /\ tokens' # <<>>
            /\ eofCount(tokens') = 1
            /\ tokens'[Len(tokens')].type = "EOF"
            /\ input = tLsLa =>
                    [i \in 1..Len(tokens') |-> tokens'[i].type] = <<"WORD", "WORD", "EOF">>
      ]_vars

C10_Witness ==
    /\ pc # "tokenize"
    /\ input = tLsLa
    /\ Len(tokens) = 3
    /\ tokens[3].type = "EOF"

\* C11: a call of parse(s) on a BashParser that has served earlier calls,
\* returned or thrown, tokenizes s to the tokens and ends with the outcome (the
\* same Program or the same ParseError) that the call of parse(s) on the new
\* BashParser gave.
C11_NoStateAcrossCalls ==
    (served.calls > 0 /\ input = served.input) =>
        /\ pc # "tokenize" => tokens = served.tokens
        /\ Done => outcome = served.outcome

C11_Witness ==
    /\ Returned
    /\ served.calls = MaxCalls
    /\ served.threw
    /\ input = served.input
    /\ outcome.body # <<>>
    /\ outcome = served.outcome

\* enum TokenType
TokenType ==
    { "WORD", "PIPE", "REDIRECT_OUT", "REDIRECT_IN", "REDIRECT_APPEND", "SEMICOLON",
      "AMPERSAND", "AND", "OR", "LPAREN", "RPAREN", "LBRACE", "RBRACE",
      "IF", "THEN", "ELSE", "FI", "FOR", "WHILE", "DO", "DONE", "FUNCTION",
      "NEWLINE", "EOF", "VARIABLE", "QUOTED_STRING", "COMMENT" }

\* the kind of the reserved word with this text
keywordKind(text) == (CHOOSE k \in keywords : k[1] = text)[2]

\* the token of a run of word characters has the kind of the reserved word it
\* is, and the kind WORD when it is none
ClassifiedByTable(token) ==
    BareWord(rawText(token)) =>
        token.type = IF rawText(token) \in ReservedWords
                     THEN keywordKind(rawText(token)) ELSE "WORD"

\* C12: the token of a maximal run of word characters has a keyword kind
\* exactly when its text is one of the nine reserved words, and then the kind
\* of that word; every other such token has the kind WORD; the kind of every
\* token is a member of TokenType; `if then else fi` gives IF, THEN, ELSE, FI.
C12_KeywordClassification ==
    /\ \A i \in 1..Len(toks) :
            /\ ClassifiedByTable(toks[i])
            /\ toks[i].type \in TokenType
    /\ (pc # "tokenize" /\ input = tKeywords) =>
            [i \in 1..Len(tokens) |-> tokens[i].type] = <<"IF", "THEN", "ELSE", "FI", "EOF">>

\* the same for the tokens whose text names no property of Object.prototype
C12_OwnKeywords ==
    /\ \A i \in 1..Len(toks) :
            rawText(toks[i]) \notin objectPrototype =>
                /\ ClassifiedByTable(toks[i])
                /\ toks[i].type \in TokenType
    /\ (pc # "tokenize" /\ input = tKeywords) =>
            [i \in 1..Len(tokens) |-> tokens[i].type] = <<"IF", "THEN", "ELSE", "FI", "EOF">>

\* the number of newline characters among the first k characters of the input
newlinesBefore(k) == Cardinality({ i \in 1..k : input[i] = NL })

\* the number of characters up to the last newline among the first k, 0 without one
lineStart(k) ==
    IF \E i \in 1..k : input[i] = NL
    THEN CHOOSE i \in 1..k : input[i] = NL /\ \A j \in (i + 1)..k : input[j] # NL
    ELSE 0

\* C13: every token that tokenize emits starts at the offset of its first
\* character and ends right after its last one (start < end, and start = end =
\* the length of the input for EOF); only skipped blanks lie between one token
\* and the next, so tokens are ordered and do not overlap; its line is 1 plus
\* the number of newlines before its start, its column 1 plus the number of
\* characters between the last newline before its start (or the start of the
\* input) and its start; in `ls`, newline, `echo hello` the token `echo` is on
\* line 2.
C13_TokenPositions ==
    /\ \A i \in 1..Len(toks) :
            LET pos  == toks[i].position
                from == IF i = 1 THEN 0 ELSE toks[i - 1].position.end
            IN  /\ from <= pos.start
                /\ \A k \in (from + 1)..pos.start : isBlank(input[k])
                /\ pos.end <= Len(input)
                /\ IF toks[i].type = "EOF"
                   THEN pos.start = Len(input) /\ pos.end = Len(input)
                   ELSE pos.start < pos.end /\ ~isBlank(input[pos.start + 1])
                /\ pos.line = 1 + newlinesBefore(pos.start)
                /\ pos.column = 1 + (pos.start - lineStart(pos.start))
    /\ (pc # "tokenize" /\ input = tLines) =>
            /\ tokens[1].position.line = 1
            /\ tokens[3].position.line = 2

C13_Witness ==
    /\ pc # "tokenize"
    /\ input = tLines
    /\ tokens[3].position = [start |-> 3, end |-> 7, line |-> 2, column |-> 1]
    /\ tokens[4].position = [start |-> 8, end |-> 13, line |-> 2, column |-> 6]
    /\ tokens[5].position = [start |-> 13, end |-> 13, line |-> 2, column |-> 11]

\* a step of parse() that pushes a statement onto the array of a statement loop
Grew ==
    /\ pc = "parse" /\ pc' = "parse"
    /\ Len(stack') <= Len(stack)
    /\ Len(stack'[Len(stack')].stmts) = Len(stack[Len(stack')].stmts) + 1

\* the span from the start of token i to the end of token j
spanOf(span, i, j) ==
    /\ span # undefinedPosition
    /\ span.start = tokens[i].position.start
    /\ span.end = tokens[j].position.end

\* a Command spans its name and its arguments; the name is token i
CommandSpan(c, i) == spanOf(c.position, i, i + Len(c.args))

\* the token after the k-th command of a pipeline whose first token is token i
RECURSIVE commandAt(_, _, _)
commandAt(commands, k, i) ==
    IF k = 1 THEN i
    ELSE commandAt(commands, k - 1, i) + Len(commands[k - 1].args) + 2

\* C14: the span of every Command, Conditional, Loop, FunctionDeclaration and
\* VariableAssignment that parse builds starts where the first token of the
\* construct starts and ends where the last token the construct consumed ends:
\* the last argument of a Command (its name without arguments), the value of
\* an assignment, the closing fi, done or } of a compound statement.
C14_NodeSpans ==
    [][Grew =>
        LET frame == stack'[Len(stack')]
            node  == frame.stmts[Len(frame.stmts)]
            at    == position + 1
        IN  CASE node.type = "command"    -> CommandSpan(node, at)
              [] node.type = "pipeline"   ->
                    \A k \in 1..Len(node.commands) :
                        CommandSpan(node.commands[k], commandAt(node.commands, k, at))
              [] node.type = "assignment" -> spanOf(node.position, at, at + 2)
              [] OTHER ->
                    /\ node.position # undefinedPosition
                    /\ node.position.start = top.ctx.start.start
                    /\ tokens[tokenAt(node)].type \in {"IF", "FOR", "WHILE", "FUNCTION"}
                    /\ node.position.end = tokens[at].position.end
      ]_vars

\* the statement loop of a nested body is at a token that is no newline, no
\* comment and not the terminator of the body, and that starts no statement
StrayInBody ==
    /\ Iterating
    /\ top.kind # "program"
    /\ ~check("NEWLINE", position)
    /\ statementBranch(position) = "null"

\* if a then ; fi
tIfStray == kwIf \o <<SP>> \o wA \o <<SP>> \o kwThen \o <<SP, ";", SP>> \o kwFi

\* C15 as stated: only the top-level statement loop skips a token that starts
\* no statement; in the body of an if, else, for, while or function such a
\* token makes parse fail with a ParseError.
C15_NestedBodiesStrict ==
    [][StrayInBody => (pc' = "done" /\ outcome'.status = "error")]_vars

\* C15, amended: the statement loop of a nested body skips a token that starts
\* no statement as the top-level loop does: the cursor moves past the token,
\* no statement is added and no error is raised; `if a then ; fi` parses to a
\* Conditional with an empty then.
C15_NestedBodiesSkip ==
    [][/\ StrayInBody =>
            /\ pc' = "parse"
            /\ position' = position + 1
            /\ stack' = stack
            /\ outcome' = outcome
       /\ (pc' = "done" /\ input = tIfStray) =>
            /\ outcome'.status = "program"
            /\ Len(outcome'.body) = 1
            /\ outcome'.body[1].type = "conditional"
            /\ outcome'.body[1].then = <<>>
      ]_vars

C15_Witness ==
    /\ Returned
    /\ input = tIfStray
    /\ branch = [name |-> "null", at |-> 3]
    /\ outcome.body[1].type = "conditional"
    /\ outcome.body[1].then = <<>>

\* the kinds of a variable reference and of the redirection operators
Redirecting == { "VARIABLE", "REDIRECT_OUT", "REDIRECT_IN", "REDIRECT_APPEND" }

\* a token that can be the name of a command
CommandWord(token) == token.type = "WORD" /\ BareWord(token.value)

\* the tokens are a command (a name, then words and quoted strings), the
\* token d of a variable reference or redirection, and a command again
CommandsAround(d) ==
    /\ d \in 2..(Len(tokens) - 2)
    /\ tokens[d].type \in Redirecting
    /\ CommandWord(tokens[1])
    /\ CommandWord(tokens[d + 1])
    /\ \A i \in Lexed \ {d} : CommandWord(tokens[i]) \/ tokens[i].type = "QUOTED_STRING"

\* the Command whose name is token i and whose arguments are the tokens up to token j
IsCommandOf(c, i, j) ==
    /\ c.type = "command"
    /\ c.name = tokens[i].value
    /\ c.args = [k \in 1..(j - i) |-> tokens[i + k].value]

\* parse returns the two Commands that stand before and after token d
TwoCommands(d) ==
    /\ outcome.status = "program"
    /\ Len(outcome.body) = 2
    /\ IsCommandOf(outcome.body[1], 1, d - 1)
    /\ IsCommandOf(outcome.body[2], d + 1, Len(tokens) - 1)

\* no argument of a Command that parse builds comes from a variable reference
\* or a redirection operator
NoRedirectingArgs ==
    \A k \in 1..Len(Built) :
        Built[k].type = "command" =>
            \A j \in 1..Len(Built[k].args) :
                tokens[tokenAt(Built[k]) + j].type \notin Redirecting

\* C16: at top level the token of a variable reference or of a redirection
\* after a command ends that Command and is dropped without error, and the
\* words after it are a second Command: `echo $x y` gives the Commands echo
\* and y, `echo a > out` the Commands echo a and out; no argument of any
\* Command comes from a VARIABLE or redirection token.
C16_RedirectEndsCommand ==
    /\ NoRedirectingArgs
    /\ \A d \in Lexed : (Done /\ CommandsAround(d)) => TwoCommands(d)

\* the same where the token after the name of the first command does not
\* have the text "="
C16_RedirectEndsCommandNoEquals ==
    /\ NoRedirectingArgs
    /\ \A d \in Lexed :
            (Done /\ CommandsAround(d) /\ tokens[2].value # <<"=">>) => TwoCommands(d)
    /\ (Done /\ input = tEchoVarWord) =>
            /\ Len(outcome.body) = 2
            /\ outcome.body[1].name = wEcho /\ outcome.body[1].args = <<>>
            /\ outcome.body[2].name = <<"y">> /\ outcome.body[2].args = <<>>
    /\ (Done /\ input = tEchoRedirect) =>
            /\ Len(outcome.body) = 2
            /\ outcome.body[1].name = wEcho /\ outcome.body[1].args = <<wA>>
            /\ outcome.body[2].name = <<"o", "u", "t">> /\ outcome.body[2].args = <<>>

====
